---- MODULE Spec2Model ----
(***************************************************************************)
(* SentryRateLimiter (src/src/index.ts): a fingerprint-keyed, fixed-window *)
(* rate limiter with a periodic sweeper.                                   *)
(*                                                                         *)
(* Time is counted in abstract clock units; windowMs is the configured     *)
(* window length in the same units.  The interval timer is modelled by its *)
(* handle (cleanupTimer) and may fire at any moment while it is active,    *)
(* which covers every cleanupIntervalMinutes and every event-loop delay.   *)
(* Date.now() is read as a clock that never runs backwards: Tick advances  *)
(* it by one unit, and any number of operations may run at one instant.    *)
(***************************************************************************)
EXTENDS Integers, Sequences, FiniteSets, TLC

\* ---------------------------------------------------------------- bounds
MaxTime == 2
MaxWindow == 1
MaxCap == 2
MaxFrames == 4

\* ---------------------------------------------------------------- events
\* An absent optional field is the empty string / the empty sequence: both
\* are falsy for the || fallbacks of getErrorFingerprint.
\* What an operation returns is kept as a record: null, undefined (a void
\* return), a boolean, an event, or a statistics object.
Null == [null |-> TRUE]
Undefined == [undefined |-> TRUE]
Boolean(b) == [boolean |-> b]

Frame(f, l) == [filename |-> f, lineno |-> l]

EvMessage == [message |-> "boom", exception |-> <<>>]
EvValue ==
    [message |-> "",
     exception |-> <<[type |-> "", value |-> "boom", frames |-> <<>>]>>]
EvTyped ==
    [message |-> "",
     exception |-> <<[type |-> "TypeError", value |-> "x is undefined",
                      frames |-> <<Frame("a.js", 1), Frame("b.js", 2),
                                   Frame("c.js", 3), Frame("d.js", 4)>>]>>]

Events == {EvMessage, EvValue, EvTyped}

\* ------------------------------------------------------------ fingerprint
NoException == [type |-> "", value |-> "", frames |-> <<>>]

FirstException(event) ==
    IF Len(event.exception) > 0 THEN event.exception[1] ELSE NoException

LastFramesAll(frames) == frames

LastTwoFrames(frames) ==
    IF Len(frames) <= 2 THEN frames ELSE SubSeq(frames, Len(frames) - 1, Len(frames))

\* frames.slice(-3)
LastFrames(frames) ==
    IF Len(frames) <= 3 THEN frames ELSE SubSeq(frames, Len(frames) - 2, Len(frames))

\* `${f.filename}:${f.lineno}`: an absent field is rendered "undefined"
FrameText(f) ==
    (IF "filename" \in DOMAIN f THEN f.filename ELSE "undefined")
    \o ":" \o
    (IF "lineno" \in DOMAIN f THEN ToString(f.lineno) ELSE "undefined")

RECURSIVE JoinFrames(_)
JoinFrames(frames) ==
    IF Len(frames) = 0 THEN ""
    ELSE IF Len(frames) = 1 THEN FrameText(frames[1])
    ELSE FrameText(frames[1]) \o "|" \o JoinFrames(Tail(frames))

\* createHash("sha256").update(s).digest("hex"), taken as collision-free
Sha256Hex(s) == <<"sha256", s>>

getErrorFingerprint(event) ==
    LET first == FirstException(event)
        message == IF event.message # "" THEN event.message
                   ELSE IF first.value # "" THEN first.value
                   ELSE "unknown"
        type == IF first.type # "" THEN first.type ELSE "Error"
        stacktrace == JoinFrames(LastFrames(first.frames))
    IN  Sha256Hex(type \o ":" \o message \o ":" \o stacktrace)

\* Inputs of getErrorFingerprint alone: every combination of present and
\* absent message, type and value; every stack of up to MaxFrames frames; and
\* frames with a separator inside the filename or with no filename.
FrameChoices == {Frame("a.js", 1), Frame("a.js", 2), Frame("b.js", 2)}

RECURSIVE Stacks(_)
Stacks(n) ==
    IF n = 0 THEN {<<>>}
    ELSE Stacks(n - 1) \cup
         {Append(st, f) : st \in {x \in Stacks(n - 1) : Len(x) = n - 1}, f \in FrameChoices}

ExceptionOf(type, value, frames) ==
    <<[type |-> type, value |-> value, frames |-> frames]>>

FieldEvents ==
    {[message |-> m, exception |-> x] :
        m \in {"", "boom"},
        x \in {<<>>} \cup {ExceptionOf(ty, v, <<>>) :
                              ty \in {"", "TypeError"}, v \in {"", "boom", "bang"}}}

StackEvents ==
    {[message |-> "", exception |-> ExceptionOf("TypeError", "boom", st)] :
        st \in Stacks(MaxFrames)}

OddEvents ==
    {[message |-> "", exception |-> ExceptionOf("TypeError", "boom", st)] :
        st \in {<<Frame("a.js:1|b.js", 2)>>,
                 <<[lineno |-> 1]>>,
                 <<Frame("undefined", 1)>>}}

FpEvents == FieldEvents \cup StackEvents \cup OddEvents

\* getErrorFingerprint over Events, tabulated
fingerprintOf == [e \in Events |-> getErrorFingerprint(e)]

Fingerprints == {fingerprintOf[e] : e \in Events}

VARIABLES
    errorCounts,          \* Map<string, ErrorRateLimit>, in insertion order
    maxReportsPerWindow,  \* readonly configuration
    windowMs,             \* readonly configuration
    cleanupTimer,         \* TRUE while the interval timer is set
    now,                  \* the value Date.now() returns
    last,                 \* the last operation called and what it returned
    winFirst,             \* history: per key, when the current window began
    winCalls,             \* history: per key, calls made in the current window
    admitted,             \* history: per key, times of the recent admits
    destroyCalls,         \* history: consecutive destroy() calls, up to 2
    counted,              \* history: per key, admits since its entry began
    unswept,              \* history: the mapping as it would be with no sweep
    clockBack             \* history: the clock has stepped back at least once

vars == <<errorCounts, maxReportsPerWindow, windowMs, cleanupTimer, now, last,
          winFirst, winCalls, admitted, destroyCalls, counted, unswept, clockBack>>

NoTime == 0 - 1

\* ------------------------------------------------------------------- Map
MapHas(m, k) == \E i \in 1..Len(m) : m[i].fingerprint = k

MapGet(m, k) == m[CHOOSE i \in 1..Len(m) : m[i].fingerprint = k].data

MapSetAlone(m, k, d) == <<[fingerprint |-> k, data |-> d]>>

MapSet(m, k, d) ==
    IF MapHas(m, k)
    THEN [i \in 1..Len(m) |->
            IF m[i].fingerprint = k THEN [fingerprint |-> k, data |-> d] ELSE m[i]]
    ELSE Append(m, [fingerprint |-> k, data |-> d])

MapKeys(m) == {m[i].fingerprint : i \in 1..Len(m)}

\* ---------------------------------------------------------- shouldReport
NewEntryZero(t) == [count |-> 0, firstSeen |-> t, lastSeen |-> t]

NewEntry(t) == [count |-> 1, firstSeen |-> t, lastSeen |-> t]

ResetEntryZero(t) == [count |-> 0, firstSeen |-> t, lastSeen |-> t]

ResetEntry(t) == [count |-> 1, firstSeen |-> t, lastSeen |-> t]

WindowExpiredByLastSeen(existing, t) == existing.lastSeen < t - windowMs

WindowExpired(existing, t) == existing.firstSeen < t - windowMs

AtCapStrict(existing) == existing.count > maxReportsPerWindow

AtCap(existing) == existing.count >= maxReportsPerWindow

\* existing.lastSeen = now
DroppedCounting(existing, t) == [existing EXCEPT !.count = @ + 1, !.lastSeen = t]

DroppedMovesFirstSeen(existing, t) == [existing EXCEPT !.firstSeen = t]

Dropped(existing, t) == [existing EXCEPT !.lastSeen = t]

\* existing.count++; existing.lastSeen = now
CountedMovesWindow(existing, t) ==
    [existing EXCEPT !.count = @ + 1, !.firstSeen = t, !.lastSeen = t]

CountedLost(existing, t) == [existing EXCEPT !.lastSeen = t]

Counted(existing, t) == [existing EXCEPT !.count = @ + 1, !.lastSeen = t]

ShouldReportCall(m, event, t) ==
    LET fingerprint == fingerprintOf[event] IN
    IF ~MapHas(m, fingerprint)
    THEN [ret |-> TRUE, errorCounts |-> MapSet(m, fingerprint, NewEntry(t))]
    ELSE LET existing == MapGet(m, fingerprint) IN
         IF WindowExpired(existing, t)
         THEN [ret |-> TRUE, errorCounts |-> MapSet(m, fingerprint, ResetEntry(t))]
         ELSE IF AtCap(existing)
         THEN [ret |-> FALSE,
               errorCounts |-> MapSet(m, fingerprint, Dropped(existing, t))]
         ELSE [ret |-> TRUE,
               errorCounts |-> MapSet(m, fingerprint, Counted(existing, t))]

\* --------------------------------------------------------------- cleanup
IsStaleByFirstSeen(data, cutoff) == data.firstSeen < cutoff

IsStale(data, cutoff) == data.lastSeen < cutoff

CleanupCallNoWindow(m, t) ==
    LET Keep(p) == ~IsStale(p.data, t)
    IN  SelectSeq(m, Keep)

CleanupCall(m, t) ==
    LET cutoff == t - windowMs
        Keep(p) == ~IsStale(p.data, cutoff)
    IN  SelectSeq(m, Keep)

\* -------------------------------------------------------------- getStats
NewDate(ms) == <<"Date", ms>>

StatsItem(p) ==
    [fingerprint |-> p.fingerprint, count |-> p.data.count,
     firstSeen |-> NewDate(p.data.firstSeen), lastSeen |-> NewDate(p.data.lastSeen)]

GetStatsBelowCap(m) ==
    [trackedErrors |-> Len(SelectSeq(m, LAMBDA p : p.data.count < maxReportsPerWindow)),
     errors |-> [i \in 1..Len(m) |-> StatsItem(m[i])]]

GetStatsCall(m) ==
    [trackedErrors |-> Len(m),
     errors |-> [i \in 1..Len(m) |-> StatsItem(m[i])]]

\* --------------------------------------------------------------- destroy
DestroyOnlyWithTimer(m, timer) ==
    IF timer
    THEN [errorCounts |-> <<>>, cleanupTimer |-> FALSE, ret |-> Undefined]
    ELSE [errorCounts |-> m, cleanupTimer |-> timer, ret |-> Undefined]

DestroyKeepsTimer(m, timer) ==
    [errorCounts |-> <<>>, cleanupTimer |-> timer, ret |-> Undefined]

DestroyCall(m, timer) ==
    [errorCounts |-> <<>>,
     cleanupTimer |-> IF timer THEN FALSE ELSE timer,
     ret |-> Undefined]

\* ------------------------------------------------------ createBeforeSend
BeforeSendInverted(m, event, t) ==
    LET r == ShouldReportCall(m, event, t) IN
    [ret |-> IF r.ret THEN Null ELSE event, errorCounts |-> r.errorCounts]

BeforeSendCall(m, event, t) ==
    LET r == ShouldReportCall(m, event, t) IN
    [ret |-> IF ~r.ret THEN Null ELSE event, errorCounts |-> r.errorCounts]

\* --------------------------------------------------------------- history
Recent(s, t) == SelectSeq(s, LAMBDA x : x >= t - windowMs)

Min(a, b) == IF a < b THEN a ELSE b

\* The window of key k as the calls see it: it begins with the first call and
\* ends when a call arrives later than windowMs after its beginning.
NoteCall(k, admit) ==
    /\ IF winFirst[k] = NoTime \/ winFirst[k] < now - windowMs
       THEN /\ winFirst' = [winFirst EXCEPT ![k] = now]
            /\ winCalls' = [winCalls EXCEPT ![k] = 1]
       ELSE /\ winFirst' = winFirst
            /\ winCalls' = [winCalls EXCEPT ![k] = Min(@ + 1, maxReportsPerWindow + 1)]
    /\ admitted' = [admitted EXCEPT ![k] = IF admit THEN Append(@, now) ELSE @]
    /\ LET began == \/ ~MapHas(errorCounts, k)
                     \/ MapGet(errorCounts, k).firstSeen < now - windowMs
           one == IF admit THEN 1 ELSE 0
       IN  counted' = [counted EXCEPT
                         ![k] = IF began THEN one ELSE Min(@ + one, MaxCap + 2)]

\* ----------------------------------------------------------------- Init
Init ==
    /\ errorCounts = <<>>
    /\ maxReportsPerWindow \in 0..MaxCap
    /\ windowMs \in 0..MaxWindow
    /\ cleanupTimer = TRUE
    /\ now = 0
    /\ last = [op |-> "new", event |-> Null, ret |-> Undefined]
    /\ winFirst = [k \in Fingerprints |-> NoTime]
    /\ winCalls = [k \in Fingerprints |-> 0]
    /\ admitted = [k \in Fingerprints |-> <<>>]
    /\ destroyCalls = 0
    /\ counted = [k \in Fingerprints |-> 0]
    /\ unswept = <<>>
    /\ clockBack = FALSE

\* --------------------------------------------------------------- actions
\* Each operation is its step on the limiter (the ...Step definitions) together
\* with the bookkeeping of the history variables.
TickStep ==
    /\ now < MaxTime
    /\ now' = now + 1
    /\ UNCHANGED <<errorCounts, maxReportsPerWindow, windowMs, cleanupTimer, last>>

ShouldReportStep(event) ==
    LET r == ShouldReportCall(errorCounts, event, now) IN
    /\ errorCounts' = r.errorCounts
    /\ last' = [op |-> "shouldReport", event |-> event, ret |-> Boolean(r.ret)]
    /\ UNCHANGED <<maxReportsPerWindow, windowMs, cleanupTimer, now>>

BeforeSendStep(event) ==
    LET r == BeforeSendCall(errorCounts, event, now) IN
    /\ errorCounts' = r.errorCounts
    /\ last' = [op |-> "beforeSend", event |-> event, ret |-> r.ret]
    /\ UNCHANGED <<maxReportsPerWindow, windowMs, cleanupTimer, now>>

CleanupStep ==
    /\ cleanupTimer
    /\ errorCounts' = CleanupCall(errorCounts, now)
    /\ last' = [op |-> "cleanup", event |-> Null, ret |-> Undefined]
    /\ UNCHANGED <<maxReportsPerWindow, windowMs, cleanupTimer, now>>

GetStatsStep ==
    /\ last' = [op |-> "getStats", event |-> Null, ret |-> GetStatsCall(errorCounts)]
    /\ UNCHANGED <<errorCounts, maxReportsPerWindow, windowMs, cleanupTimer, now>>

DestroyStep ==
    LET r == DestroyCall(errorCounts, cleanupTimer) IN
    /\ errorCounts' = r.errorCounts
    /\ cleanupTimer' = r.cleanupTimer
    /\ last' = [op |-> "destroy", event |-> Null, ret |-> r.ret]
    /\ UNCHANGED <<maxReportsPerWindow, windowMs, now>>

Tick ==
    /\ TickStep
    /\ admitted' = [k \in Fingerprints |-> Recent(admitted[k], now + 1)]
    /\ UNCHANGED <<winFirst, winCalls, destroyCalls, counted, unswept, clockBack>>

ShouldReport(event) ==
    /\ ShouldReportStep(event)
    /\ NoteCall(fingerprintOf[event], last'.ret.boolean)
    /\ destroyCalls' = 0
    /\ unswept' = ShouldReportCall(unswept, event, now).errorCounts
    /\ UNCHANGED clockBack

BeforeSend(event) ==
    /\ BeforeSendStep(event)
    /\ NoteCall(fingerprintOf[event], last'.ret # Null)
    /\ destroyCalls' = 0
    /\ unswept' = ShouldReportCall(unswept, event, now).errorCounts
    /\ UNCHANGED clockBack

Cleanup ==
    /\ CleanupStep
    /\ destroyCalls' = 0
    /\ counted' = [k \in Fingerprints |->
                     IF MapHas(errorCounts', k) THEN counted[k] ELSE 0]
    /\ UNCHANGED <<winFirst, winCalls, admitted, unswept, clockBack>>

GetStats ==
    /\ GetStatsStep
    /\ destroyCalls' = 0
    /\ UNCHANGED <<winFirst, winCalls, admitted, counted, unswept, clockBack>>

Destroy ==
    /\ DestroyStep
    /\ winFirst' = [k \in Fingerprints |-> NoTime]
    /\ winCalls' = [k \in Fingerprints |-> 0]
    /\ admitted' = [k \in Fingerprints |-> <<>>]
    /\ destroyCalls' = Min(destroyCalls + 1, 2)
    /\ counted' = [k \in Fingerprints |-> 0]
    /\ unswept' = <<>>
    /\ UNCHANGED clockBack

CallShouldReport == \E event \in Events : ShouldReport(event)

CallBeforeSend == \E event \in Events : BeforeSend(event)

Next ==
    \/ Tick
    \/ CallShouldReport
    \/ CallBeforeSend
    \/ Cleanup
    \/ GetStats
    \/ Destroy

Spec == Init /\ [][Next]_vars

\* The limiter under a wall clock that the system may set back (Date.now() is
\* not monotonic): any sequence of shouldReport calls, sweeps and destroy calls
\* with any sequence of clock values.  The histories of windows and admits are
\* defined for a clock that only advances and are left alone here.
NoHistory ==
    UNCHANGED <<winFirst, winCalls, admitted, destroyCalls, counted, unswept>>

SkewTick == TickStep /\ NoHistory /\ UNCHANGED clockBack

SkewClockBack ==
    /\ \E t \in 0..(now - 1) : now' = t
    /\ clockBack' = TRUE
    /\ NoHistory
    /\ UNCHANGED <<errorCounts, maxReportsPerWindow, windowMs, cleanupTimer, last>>

SkewShouldReport ==
    /\ \E event \in Events : ShouldReportStep(event)
    /\ NoHistory
    /\ UNCHANGED clockBack

SkewCleanup == CleanupStep /\ NoHistory /\ UNCHANGED clockBack

SkewDestroy == DestroyStep /\ NoHistory /\ UNCHANGED clockBack

SkewNext ==
    \/ SkewTick
    \/ SkewClockBack
    \/ SkewShouldReport
    \/ SkewCleanup
    \/ SkewDestroy

SkewSpec == Init /\ [][SkewNext]_vars

\* getErrorFingerprint as a function of its input: two events are drawn and
\* the key of each is computed on a limiter just constructed.
FpInit ==
    /\ errorCounts = <<>>
    /\ maxReportsPerWindow = MaxCap
    /\ windowMs = MaxWindow
    /\ cleanupTimer = TRUE
    /\ now = 0
    /\ \E e1 \in FpEvents, e2 \in FpEvents :
         last = [op |-> "events", event |-> [first |-> e1, second |-> e2],
                 ret |-> Undefined]
    /\ winFirst = [k \in Fingerprints |-> NoTime]
    /\ winCalls = [k \in Fingerprints |-> 0]
    /\ admitted = [k \in Fingerprints |-> <<>>]
    /\ destroyCalls = 0
    /\ counted = [k \in Fingerprints |-> 0]
    /\ unswept = <<>>
    /\ clockBack = FALSE

FpCompute ==
    /\ last.op = "events"
    /\ last' = [op |-> "getErrorFingerprint", event |-> last.event,
                ret |-> [first |-> getErrorFingerprint(last.event.first),
                         second |-> getErrorFingerprint(last.event.second)]]
    /\ UNCHANGED <<errorCounts, maxReportsPerWindow, windowMs, cleanupTimer, now,
                   winFirst, winCalls, admitted, destroyCalls, counted, unswept,
                   clockBack>>

FpNext == FpCompute

FpSpec == FpInit /\ [][FpNext]_vars

\* setInterval keeps firing the sweep for as long as the timer is set.
FairSpec == Spec /\ WF_vars(Cleanup)

\* ------------------------------------------------------------ properties
IsCall(l) == l.op \in {"shouldReport", "beforeSend"}

Admitted(l) == IF l.op = "shouldReport" THEN l.ret.boolean ELSE l.ret # Null

FreshAt(t) == [count |-> 1, firstSeen |-> t, lastSeen |-> t]

\* C1 (cap enforcement): with maxReportsPerWindow = N >= 1, a call for a key
\* returns true exactly when it is among the first N calls for that key in the
\* key's current window, whatever calls for other keys and sweeps happened.
CapEnforcement ==
    (maxReportsPerWindow >= 1 /\ IsCall(last)) =>
        (Admitted(last) <=> winCalls[fingerprintOf[last.event]] <= maxReportsPerWindow)

\* A call beyond the cap was dropped while a second key was being tracked.
CapReached ==
    /\ maxReportsPerWindow >= 1
    /\ last.op = "shouldReport"
    /\ last.ret = Boolean(FALSE)
    /\ winCalls[fingerprintOf[last.event]] = maxReportsPerWindow + 1
    /\ Len(errorCounts) = 2

\* C2 as stated: in every span no longer than the window, at most
\* maxReportsPerWindow calls for one key return true.
SlidingCap ==
    maxReportsPerWindow >= 1 =>
        \A k \in Fingerprints : Len(admitted[k]) <= maxReportsPerWindow

\* C2 (amended): in every span no longer than the window in which destroy() is
\* not called, at most 2 * maxReportsPerWindow - 1 calls for one key return true.
SpanCap ==
    maxReportsPerWindow >= 1 =>
        \A k \in Fingerprints : Len(admitted[k]) <= 2 * maxReportsPerWindow - 1

\* More admits than the cap inside one span: the amended bound is met.
SpanCapReached ==
    /\ maxReportsPerWindow >= 2
    /\ \E k \in Fingerprints : Len(admitted[k]) = 2 * maxReportsPerWindow - 1

\* C3 (first-admit): a shouldReport call for a key with no entry returns true
\* and creates {count: 1, firstSeen: now, lastSeen: now}, for every
\* configuration.
FirstAdmit ==
    [][\A e \in Events :
         (/\ last'.op = "shouldReport"
          /\ last'.event = e
          /\ now' = now
          /\ ~MapHas(errorCounts, fingerprintOf[e]))
         => (/\ last'.ret = Boolean(TRUE)
             /\ MapHas(errorCounts', fingerprintOf[e])
             /\ MapGet(errorCounts', fingerprintOf[e]) = FreshAt(now))]_vars

\* A key is admitted afresh after destroy(), with a cap of 0.
FirstAdmitAfterDestroy ==
    /\ last.op = "shouldReport"
    /\ last.ret = Boolean(TRUE)
    /\ ~cleanupTimer
    /\ maxReportsPerWindow = 0
    /\ Len(errorCounts) = 1
    /\ errorCounts[1].data = FreshAt(now)

\* C4 (window reset): a shouldReport call for a key whose entry has
\* firstSeen < now - windowMs returns true and replaces the entry with
\* {count: 1, firstSeen: now, lastSeen: now}, whatever the count was.
WindowReset ==
    [][\A e \in Events :
         (/\ last'.op = "shouldReport"
          /\ last'.event = e
          /\ now' = now
          /\ MapHas(errorCounts, fingerprintOf[e])
          /\ MapGet(errorCounts, fingerprintOf[e]).firstSeen < now - windowMs)
         => (/\ last'.ret = Boolean(TRUE)
             /\ MapHas(errorCounts', fingerprintOf[e])
             /\ MapGet(errorCounts', fingerprintOf[e]) = FreshAt(now))]_vars

\* The first-inserted key was reset in place: it is fresher than the key
\* inserted after it.
WindowResetDone ==
    /\ last.op = "shouldReport"
    /\ last.ret = Boolean(TRUE)
    /\ Len(errorCounts) = 2
    /\ errorCounts[1].fingerprint = fingerprintOf[last.event]
    /\ errorCounts[1].data = FreshAt(now)
    /\ errorCounts[2].data.firstSeen < now

\* C5 (eviction): a sweep removes exactly the entries with
\* lastSeen < now - windowMs, leaves the others as they were, and trackedErrors
\* read after it is the number of entries that remain.
Eviction ==
    [][(last'.op = "cleanup" /\ now' = now) =>
         /\ \A k \in Fingerprints :
              IF MapHas(errorCounts, k) /\ MapGet(errorCounts, k).lastSeen >= now - windowMs
              THEN MapHas(errorCounts', k) /\ MapGet(errorCounts', k) = MapGet(errorCounts, k)
              ELSE ~MapHas(errorCounts', k)
         /\ GetStatsCall(errorCounts').trackedErrors =
              Cardinality({k \in Fingerprints :
                  MapHas(errorCounts, k)
                  /\ MapGet(errorCounts, k).lastSeen >= now - windowMs})]_vars

\* A sweep has evicted one key and kept the other.
EvictionDone ==
    /\ last.op = "cleanup"
    /\ Len(errorCounts) = 1
    /\ \E k \in Fingerprints : winFirst[k] # NoTime /\ ~MapHas(errorCounts, k)

\* C6 (automatic cleanup): with a window of positive length, an entry that has
\* gone stale, its key no longer recurring, is eventually removed from the
\* mapping.
StaleEntry(k) ==
    MapHas(errorCounts, k) /\ MapGet(errorCounts, k).lastSeen < now - windowMs

AutomaticCleanup ==
    \A k \in Fingerprints : (windowMs >= 1 /\ StaleEntry(k)) ~> ~StaleEntry(k)

\* C7 (idempotent teardown): every destroy() returns normally and leaves the
\* mapping empty and the timer cancelled; one more destroy() leaves that state
\* as it is.
IdempotentTeardown ==
    last.op = "destroy" =>
        /\ last.ret = Undefined
        /\ errorCounts = <<>>
        /\ GetStatsCall(errorCounts).trackedErrors = 0
        /\ ~cleanupTimer
        /\ DestroyCall(errorCounts, cleanupTimer) =
             [errorCounts |-> errorCounts, cleanupTimer |-> cleanupTimer,
              ret |-> Undefined]

\* destroy() was called twice in succession.
TornDownTwice ==
    /\ last.op = "destroy"
    /\ destroyCalls = 2
    /\ errorCounts = <<>>

\* C8 (decision adapter): the function createBeforeSend returns gives back the
\* event exactly when one direct shouldReport call admits it and null exactly
\* when that call drops it, and changes the tracker as that one call does.
DecisionAdapter ==
    [][\A e \in Events :
         (last'.op = "beforeSend" /\ last'.event = e /\ now' = now) =>
            LET direct == ShouldReportCall(errorCounts, e, now) IN
            /\ last'.ret = e <=> direct.ret
            /\ last'.ret = Null <=> ~direct.ret
            /\ errorCounts' = direct.errorCounts
            /\ cleanupTimer' = cleanupTimer]_vars

\* The adapter suppressed an event of a key at its cap.
AdapterDropped ==
    /\ last.op = "beforeSend"
    /\ last.ret = Null
    /\ maxReportsPerWindow >= 1
    /\ MapGet(errorCounts, fingerprintOf[last.event]).count = maxReportsPerWindow

\* C9 (getStats is a read-only snapshot): it leaves the mapping and the timer
\* as they are, changes no later shouldReport result, and returns trackedErrors
\* equal to the number of entries with exactly one item per entry carrying that
\* entry's fingerprint, count, firstSeen and lastSeen.
StatsReadOnly ==
    [][(last'.op = "getStats" /\ now' = now) =>
         /\ errorCounts' = errorCounts
         /\ cleanupTimer' = cleanupTimer
         /\ \A e \in Events :
              ShouldReportCall(errorCounts', e, now') = ShouldReportCall(errorCounts, e, now)
         /\ last'.ret.trackedErrors = Cardinality(MapKeys(errorCounts))
         /\ Len(last'.ret.errors) = Cardinality(MapKeys(errorCounts))
         /\ \A k \in MapKeys(errorCounts) :
              /\ Cardinality({i \in 1..Len(last'.ret.errors) :
                                last'.ret.errors[i].fingerprint = k}) = 1
              /\ \E i \in 1..Len(last'.ret.errors) :
                   last'.ret.errors[i] =
                     [fingerprint |-> k,
                      count |-> MapGet(errorCounts, k).count,
                      firstSeen |-> NewDate(MapGet(errorCounts, k).firstSeen),
                      lastSeen |-> NewDate(MapGet(errorCounts, k).lastSeen)]]_vars

\* A snapshot of two tracked keys, one of them at its cap.
StatsOfTwo ==
    /\ last.op = "getStats"
    /\ last.ret.trackedErrors = 2
    /\ maxReportsPerWindow >= 1
    /\ \E i \in 1..2 : last.ret.errors[i].count = maxReportsPerWindow

\* C10 (keys are tracked independently): a call for key k leaves the entry of
\* every other key as it was, and its result is the one it would have if the
\* mapping held the entry of k alone.
OnlyKey(m, k) == SelectSeq(m, LAMBDA p : p.fingerprint = k)

KeysIndependent ==
    [][\A e \in Events :
         (IsCall(last') /\ last'.event = e /\ now' = now) =>
            /\ \A k \in Fingerprints \ {fingerprintOf[e]} :
                 /\ MapHas(errorCounts', k) <=> MapHas(errorCounts, k)
                 /\ MapHas(errorCounts, k) =>
                      MapGet(errorCounts', k) = MapGet(errorCounts, k)
            /\ Admitted(last') =
                 ShouldReportCall(OnlyKey(errorCounts, fingerprintOf[e]), e, now).ret]_vars

\* A call for one key was dropped while the other key's entry, last seen
\* earlier, stayed as it was.
KeysSideBySide ==
    /\ last.op = "shouldReport"
    /\ last.ret = Boolean(FALSE)
    /\ Len(errorCounts) = 2
    /\ \E i \in 1..2 :
         /\ errorCounts[i].fingerprint # fingerprintOf[last.event]
         /\ errorCounts[i].data.lastSeen < now

\* C14: with maxReportsPerWindow >= 1, every entry of the mapping has
\* 1 <= count <= maxReportsPerWindow.
CountInRange ==
    maxReportsPerWindow >= 1 =>
        \A i \in 1..Len(errorCounts) :
            /\ errorCounts[i].data.count >= 1
            /\ errorCounts[i].data.count <= maxReportsPerWindow

\* A call was dropped at the cap and the count stayed at the cap.
CountAtCapAfterDrop ==
    /\ maxReportsPerWindow >= 1
    /\ IsCall(last)
    /\ ~Admitted(last)
    /\ MapGet(errorCounts, fingerprintOf[last.event]).count = maxReportsPerWindow
    /\ winCalls[fingerprintOf[last.event]] = maxReportsPerWindow + 1

\* C15 (within-window step): a shouldReport call for a key whose entry exists
\* with firstSeen >= now - windowMs keeps firstSeen, sets lastSeen to now, and
\* adds exactly 1 to count when it returns true (count below the cap before),
\* leaving count as it was when it returns false (count at or above the cap).
WithinWindowStep ==
    [][\A e \in Events :
         (/\ last'.op = "shouldReport"
          /\ last'.event = e
          /\ now' = now
          /\ MapHas(errorCounts, fingerprintOf[e])
          /\ MapGet(errorCounts, fingerprintOf[e]).firstSeen >= now - windowMs)
         => LET before == MapGet(errorCounts, fingerprintOf[e])
                after == MapGet(errorCounts', fingerprintOf[e])
            IN  /\ MapHas(errorCounts', fingerprintOf[e])
                /\ after.firstSeen = before.firstSeen
                /\ after.lastSeen = now
                /\ last'.ret.boolean <=> before.count < maxReportsPerWindow
                /\ after.count = IF last'.ret.boolean THEN before.count + 1
                                 ELSE before.count]_vars

\* A later admit inside the window left the window where it began.
AdmitInsideWindow ==
    /\ last.op = "shouldReport"
    /\ last.ret = Boolean(TRUE)
    /\ MapGet(errorCounts, fingerprintOf[last.event]).firstSeen < now
    /\ MapGet(errorCounts, fingerprintOf[last.event]).lastSeen = now
    /\ MapGet(errorCounts, fingerprintOf[last.event]).count = 2

\* C16: once destroy() has returned the timer is cancelled, it stays cancelled
\* whatever is called afterwards, no sweep runs while it is cancelled, and only
\* destroy() cancels it.
SweeperStopsForGood ==
    [][/\ (last'.op = "destroy" /\ now' = now) => ~cleanupTimer'
       /\ ~cleanupTimer => ~cleanupTimer'
       /\ ~cleanupTimer => ~(last'.op = "cleanup" /\ now' = now)
       /\ (cleanupTimer /\ ~cleanupTimer') => last'.op = "destroy"]_vars

\* After destroy() an entry added later has gone stale and no sweep has come.
StaleAfterDestroy ==
    /\ ~cleanupTimer
    /\ windowMs >= 1
    /\ IsCall(last)
    /\ \E k \in Fingerprints : StaleEntry(k)

\* C18 (suppression is bounded by one window): a call for a key is dropped only
\* if a call for that key was admitted no longer than windowMs before it.
SuppressionBounded ==
    [][\A e \in Events :
         (IsCall(last') /\ last'.event = e /\ now' = now /\ ~Admitted(last'))
         => \E i \in 1..Len(admitted'[fingerprintOf[e]]) :
              /\ admitted'[fingerprintOf[e]][i] >= now - windowMs
              /\ admitted'[fingerprintOf[e]][i] <= now]_vars

\* A call was dropped at the latest moment a drop is possible: exactly
\* windowMs after the only recent admit of its key.
DroppedAtWindowEdge ==
    /\ IsCall(last)
    /\ ~Admitted(last)
    /\ windowMs >= 1
    /\ admitted[fingerprintOf[last.event]] = <<now - windowMs>>
    /\ MapGet(errorCounts, fingerprintOf[last.event]).lastSeen = now

\* C11 as stated: every entry has firstSeen <= lastSeen, for any sequence of
\* values returned by the clock.
FirstSeenNotAfterLastSeen ==
    \A i \in 1..Len(errorCounts) :
        errorCounts[i].data.firstSeen <= errorCounts[i].data.lastSeen

\* C11 (amended): as long as the clock has returned a non-decreasing sequence
\* of values, every entry has firstSeen <= lastSeen.
OrderedWhileClockAdvances ==
    ~clockBack => FirstSeenNotAfterLastSeen

\* The clock has only advanced and an entry was seen again after its first
\* sighting, on an instance that had been swept and destroyed before.
SeenAgainLater ==
    /\ ~clockBack
    /\ ~cleanupTimer
    /\ last.op = "shouldReport"
    /\ last.ret = Boolean(FALSE)
    /\ \E i \in 1..Len(errorCounts) :
         errorCounts[i].data.firstSeen < errorCounts[i].data.lastSeen

\* C17 (the sweeper is orthogonal to decisions): a sweep never removes an entry
\* with firstSeen >= now - windowMs, and every call returns what it returns on
\* the mapping that no sweep has ever touched.
SweepOrthogonal ==
    [][/\ (last'.op = "cleanup" /\ now' = now) =>
            \A i \in 1..Len(errorCounts) :
                errorCounts[i].data.firstSeen >= now - windowMs
                => /\ MapHas(errorCounts', errorCounts[i].fingerprint)
                   /\ MapGet(errorCounts', errorCounts[i].fingerprint) = errorCounts[i].data
       /\ \A e \in Events :
            (IsCall(last') /\ last'.event = e /\ now' = now)
            => Admitted(last') = ShouldReportCall(unswept, e, now).ret]_vars

\* A call was admitted for a key that a sweep had evicted: the mapping never
\* swept still holds the key's old entry, and admits the call as well.
AdmittedAfterEviction ==
    /\ IsCall(last)
    /\ Admitted(last)
    /\ Len(errorCounts) = 1
    /\ Len(unswept) = 2
    /\ unswept[1].fingerprint # fingerprintOf[last.event]
    /\ cleanupTimer

\* C19 (no lost updates): the count of every entry is the number of calls for
\* its key that returned true since the entry was created or reset, whatever the
\* interleaving of calls and sweeps.
NoLostUpdates ==
    \A i \in 1..Len(errorCounts) :
        errorCounts[i].data.count = counted[errorCounts[i].fingerprint]

\* Two keys were counted up to the cap side by side, with a sweep in between.
CountedSideBySide ==
    /\ last.op = "cleanup"
    /\ maxReportsPerWindow = 2
    /\ Len(errorCounts) = 2
    /\ errorCounts[1].data.count = 2
    /\ errorCounts[2].data.count = 2
    /\ counted[errorCounts[1].fingerprint] = 2

\* ---------------------------------------------------- fingerprint claims
\* The triple the key is said to depend on, written out from its description.
Computed == last.op = "getErrorFingerprint"

HasException(e) == Len(e.exception) > 0

TripleType(e) ==
    IF HasException(e) /\ e.exception[1].type # "" THEN e.exception[1].type
    ELSE "Error"

TripleMessage(e) ==
    IF e.message # "" THEN e.message
    ELSE IF HasException(e) /\ e.exception[1].value # "" THEN e.exception[1].value
    ELSE "unknown"

StackOf(e) == IF HasException(e) THEN e.exception[1].frames ELSE <<>>

RECURSIVE LastThree(_)
LastThree(st) == IF Len(st) > 3 THEN LastThree(Tail(st)) ELSE st

FileLine(f) ==
    (IF "filename" \in DOMAIN f THEN f.filename ELSE "undefined")
    \o ":" \o
    (IF "lineno" \in DOMAIN f THEN ToString(f.lineno) ELSE "undefined")

RECURSIVE BarJoined(_)
BarJoined(st) ==
    IF st = <<>> THEN ""
    ELSE IF Len(st) = 1 THEN FileLine(st[1])
    ELSE BarJoined(SubSeq(st, 1, Len(st) - 1)) \o "|" \o FileLine(st[Len(st)])

TripleStack(e) == BarJoined(LastThree(StackOf(e)))

Triple(e) == <<TripleType(e), TripleMessage(e), TripleStack(e)>>

SameTypeAndMessage(e1, e2) ==
    /\ TripleType(e1) = TripleType(e2)
    /\ TripleMessage(e1) = TripleMessage(e2)

\* Every frame names its file and line, and no file name holds the separator.
PlainFiles == {"a.js", "b.js", "undefined"}

PlainStack(e) ==
    \A i \in 1..Len(StackOf(e)) :
        /\ DOMAIN StackOf(e)[i] = {"filename", "lineno"}
        /\ StackOf(e)[i].filename \in PlainFiles

\* C12 (fingerprint determinism): two events with the same triple (type or
\* "Error"; message, else first exception's value, else "unknown"; the text of
\* the last three frames) get the same key, and computing the key leaves the
\* tracker as it was constructed.
Determinism ==
    Computed =>
        /\ Triple(last.event.first) = Triple(last.event.second)
             => last.ret.first = last.ret.second
        /\ errorCounts = <<>>
        /\ cleanupTimer
        /\ maxReportsPerWindow = MaxCap
        /\ windowMs = MaxWindow

\* Two events that are not the same event, one with four frames and one with
\* three, agree on the triple and were given one key.
SameTripleSameKey ==
    /\ Computed
    /\ Len(StackOf(last.event.first)) = 4
    /\ Len(StackOf(last.event.second)) = 3
    /\ Triple(last.event.first) = Triple(last.event.second)
    /\ last.ret.first = last.ret.second
    /\ errorCounts = <<>>

\* C13 as stated (fingerprint distinctness): two events with the same type
\* and message whose stacktraces differ in depth, in a frame's file or in a
\* frame's line get different keys.
StackDistinctness ==
    Computed =>
        ((/\ SameTypeAndMessage(last.event.first, last.event.second)
          /\ StackOf(last.event.first) # StackOf(last.event.second))
         => last.ret.first # last.ret.second)

\* C13 (amended): for two events with the same type and message the keys
\* differ exactly when the text of their last three frames differs; and when
\* every frame names its file and line and no file name holds the separator,
\* the keys differ whenever the last three frames differ in number, file or
\* line.
LastThreeDistinctness ==
    Computed =>
        (SameTypeAndMessage(last.event.first, last.event.second) =>
            /\ (last.ret.first # last.ret.second)
                 <=> (TripleStack(last.event.first) # TripleStack(last.event.second))
            /\ (/\ PlainStack(last.event.first)
                /\ PlainStack(last.event.second)
                /\ LastThree(StackOf(last.event.first))
                     # LastThree(StackOf(last.event.second)))
               => last.ret.first # last.ret.second)

\* Two stacks of four frames with the same outermost frame differ only in the
\* third frame from the end, and the keys differ.
ThirdFrameFromEndDiffers ==
    /\ Computed
    /\ SameTypeAndMessage(last.event.first, last.event.second)
    /\ Len(StackOf(last.event.first)) = 4
    /\ Len(StackOf(last.event.second)) = 4
    /\ \A i \in {1, 3, 4} : StackOf(last.event.first)[i] = StackOf(last.event.second)[i]
    /\ StackOf(last.event.first)[2] # StackOf(last.event.second)[2]
    /\ last.ret.first # last.ret.second
====
